---- MODULE Spec2Model ----
(***************************************************************************)
(* Disk-backed B-tree of sbsampaio/TBO-TP2 (persistent revision,           *)
(* src/unnamed/part_000).  The file is modelled slot by slot: slot id      *)
(* starts at byte id * slot_size (calculate_offset adds no header size),   *)
(* so the machine word at byte 0 that get_next_bin_pos/update_node_count   *)
(* use as the slot count is the very word that holds n_keys of slot 0.     *)
(* C arrays are 0-based; the sequences below are 1-based, so C index i is  *)
(* element i + 1.                                                          *)
(***************************************************************************)
EXTENDS Integers, Sequences, FiniteSets, TLC

VARIABLES tree, fault, mem, order, file, root, n_nodes, status, lastOp, found, wnode, rnode

vars == <<tree, fault, mem, order, file, root, n_nodes, status, lastOp, found, wnode, rnode>>

\* ---------------------------------------------------------------- bounds
MinOrder == 3
MaxOrder == 4
MaxKey == 4
MaxVal == 1
MaxNodes == 5
MaxHeap == 7
MaxMemKey == 6

Orders == MinOrder..MaxOrder
Keys == 1..MaxKey
Vals == 1..MaxVal
MemKeys == 1..MaxMemKey

\* ------------------------------------------------------------ status codes
BTREE_SUCCESS == "SUCCESS"
BTREE_ERROR_ALLOC == "ALLOC"
BTREE_ERROR_NOT_FOUND == "NOT_FOUND"
BTREE_ERROR_INVALID_PARAM == "INVALID_PARAM"
BTREE_ERROR_IO == "IO"

\* ------------------------------------------------------------------- nodes
\* A null node_t pointer.
NULL == [n_keys |-> -1, is_leaf |-> FALSE, bin_pos |-> -1,
         keys |-> << >>, values |-> << >>, children |-> << >>]

\* The in-memory revision's heap when that revision is not the one running.
NoMem == [heap |-> << >>, root |-> 0, tree_freed |-> FALSE, freed |-> << >>]

Fill(n, x) == [j \in 1..n |-> x]

\* struct node as node_create leaves it: no keys, every entry -1.
node_create(is_leaf, ord, bin_pos) ==
  [n_keys |-> 0, is_leaf |-> is_leaf, bin_pos |-> bin_pos,
   keys |-> Fill(ord - 1, -1), values |-> Fill(ord - 1, -1),
   children |-> Fill(ord, -1)]

\* int t = ceil(order / 2.0)
CeilHalf(ord) == (ord + 1) \div 2

\* a[i] and a[i] = x with C indices
At(a, i) == a[i + 1]
SetAt(a, i, x) == [a EXCEPT ![i + 1] = x]

\* ---------------------------------------------------------------- the file
\* Bytes of a hole left by writing past the end of the file: all zero.
HoleSlot(ord) ==
  [n_keys |-> 0, is_leaf |-> FALSE, bin_pos |-> 0,
   keys |-> Fill(ord - 1, 0), values |-> Fill(ord - 1, 0),
   children |-> Fill(ord, 0)]

\* Number of whole slots in the file: ftell(fp) / calculate_offset(1, order)
\* after fseek(fp, 0, SEEK_END).
FileSlots(f) == Len(f)

\* A counter that hands out the ID of the first slot again.
get_next_bin_pos_Mut(f) == 0

\* The word at byte 0: calculate_offset(0, order) = 0, so it is n_keys of
\* slot 0.  Reading it from an empty file fails and leaves the local
\* uninitialised; split only runs once the root occupies slot 0.
get_next_bin_pos(f) == f[1].n_keys

update_node_count(f) == [f EXCEPT ![1].n_keys = @ + 1]

\* A disk_read that copies the n_keys it read into the node, up to the
\* capacity of the smallest order.
ReadNKeys_Mut(slot) ==
  IF slot.n_keys > MinOrder - 1 THEN MinOrder - 1 ELSE slot.n_keys

\* What disk_read stores in node->n_keys: the value read from the file goes
\* to a local that is never copied into the node node_create returned.
ReadNKeys(slot) == 0

\* disk_read: NULL for a negative offset (child -1) or a slot past the end.
disk_read(f, ord, file_pos) ==
  IF file_pos < 0 \/ file_pos >= FileSlots(f) THEN NULL
  ELSE LET s == f[file_pos + 1] IN
       [n_keys |-> ReadNKeys(s), is_leaf |-> s.is_leaf, bin_pos |-> file_pos,
        keys |-> s.keys, values |-> s.values, children |-> s.children]

\* disk_write: the record goes to slot node.bin_pos; slots skipped over
\* become holes.
disk_write(f, node, ord) ==
  LET p == node.bin_pos
      g == IF p < Len(f) THEN f
           ELSE f \o [j \in 1..(p + 1 - Len(f)) |-> HoleSlot(ord)]
  IN [g EXCEPT ![p + 1] = node]

\* ------------------------------------------------------------------ search
\* while (i < n_keys && key > keys[i]) i++   (node_search and node_remove)
ScanIdx(node, key) ==
  CHOOSE i \in 0..node.n_keys :
     /\ (i = node.n_keys \/ ~(key > At(node.keys, i)))
     /\ \A j \in 0..(i - 1) : key > At(node.keys, j)

RECURSIVE node_search(_, _, _, _, _)
\* Result: the node returned (NULL if none) and the caller's *pos, which is
\* only assigned when the key is found.
node_search(node, key, pos, f, ord) ==
  IF node = NULL THEN [node |-> NULL, pos |-> pos]
  ELSE LET i == ScanIdx(node, key) IN
    IF i < node.n_keys /\ key = At(node.keys, i) THEN [node |-> node, pos |-> i]
    ELSE IF node.is_leaf THEN [node |-> NULL, pos |-> pos]
    ELSE IF At(node.children, i) = -1 THEN [node |-> NULL, pos |-> pos]
    ELSE LET child == disk_read(f, ord, At(node.children, i)) IN
         IF child = NULL THEN [node |-> NULL, pos |-> pos]
         ELSE node_search(child, key, pos, f, ord)

btree_search(key, pos) == node_search(root, key, pos, file, order)

\* ------------------------------------------------------------------- split
\* node_create(child->is_leaf, ...): the new right half is a leaf exactly
\* when the split child is.
SplitLeafFlag_Mut(child) == FALSE

SplitLeafFlag(child) == child.is_leaf

\* The parent's child IDs after the split: children right of idx move one
\* place right and the new node is linked at idx + 1.
SplitParentChildren_Mut(parent, idx, new_pos, ord) ==
  [j \in 1..ord |->
     LET i == j - 1 IN
     IF i > idx + 1 /\ i <= parent.n_keys + 1 THEN At(parent.children, i - 1)
     ELSE At(parent.children, i)]

\* A split that links the parent's own ID where the new node belongs.
SplitParentChildren_Self(parent, idx, new_pos, ord) ==
  [j \in 1..ord |->
     LET i == j - 1 IN
     IF i = idx + 1 THEN parent.bin_pos
     ELSE IF i > idx + 1 /\ i <= parent.n_keys + 1 THEN At(parent.children, i - 1)
     ELSE At(parent.children, i)]

SplitParentChildren(parent, idx, new_pos, ord) ==
  [j \in 1..ord |->
     LET i == j - 1 IN
     IF i = idx + 1 THEN new_pos
     ELSE IF i > idx + 1 /\ i <= parent.n_keys + 1 THEN At(parent.children, i - 1)
     ELSE At(parent.children, i)]

\* Result: status, the parent and child as left in memory, the file.
node_split_child(parent, idx, ord, child, f) ==
  IF parent = NULL \/ child = NULL \/ idx < 0 \/ idx > parent.n_keys
  THEN [status |-> BTREE_ERROR_INVALID_PARAM, parent |-> parent,
        child |-> child, file |-> f]
  ELSE
  LET new_node_pos == get_next_bin_pos(f)
      t == CeilHalf(ord)
      nn == child.n_keys - t
      moved(i) == i >= t /\ i < t + nn
      new_node ==
        [n_keys |-> nn, is_leaf |-> SplitLeafFlag(child),
         bin_pos |-> new_node_pos,
         keys |-> [j \in 1..(ord - 1) |->
                     IF j - 1 < nn THEN At(child.keys, t + j - 1) ELSE -1],
         values |-> [j \in 1..(ord - 1) |->
                     IF j - 1 < nn THEN At(child.values, t + j - 1) ELSE -1],
         children |-> [j \in 1..ord |->
                     IF ~child.is_leaf /\ j - 1 <= nn
                     THEN At(child.children, t + j - 1) ELSE -1]]
      child2 ==
        [child EXCEPT
           !.n_keys = t - 1,
           !.keys = [j \in 1..(ord - 1) |->
                       IF moved(j - 1) \/ j - 1 = t - 1 THEN -1 ELSE child.keys[j]],
           !.values = [j \in 1..(ord - 1) |->
                       IF moved(j - 1) \/ j - 1 = t - 1 THEN -1 ELSE child.values[j]],
           !.children = [j \in 1..ord |->
                       IF ~child.is_leaf /\ j - 1 >= t /\ j - 1 <= t + nn
                       THEN -1 ELSE child.children[j]]]
      parent2 ==
        [parent EXCEPT
           !.n_keys = parent.n_keys + 1,
           !.children = SplitParentChildren(parent, idx, new_node_pos, ord),
           !.keys = [j \in 1..(ord - 1) |->
                       LET i == j - 1 IN
                       IF i = idx THEN At(child.keys, t - 1)
                       ELSE IF i > idx /\ i <= parent.n_keys
                            THEN At(parent.keys, i - 1)
                       ELSE At(parent.keys, i)],
           !.values = [j \in 1..(ord - 1) |->
                       LET i == j - 1 IN
                       IF i = idx THEN At(child.values, t - 1)
                       ELSE IF i > idx /\ i <= parent.n_keys
                            THEN At(parent.values, i - 1)
                       ELSE At(parent.values, i)]]
      f1 == disk_write(f, child2, ord)
      f2 == disk_write(f1, new_node, ord)
      f3 == disk_write(f2, parent2, ord)
  IN [status |-> BTREE_SUCCESS, parent |-> parent2, child |-> child2,
      file |-> f3]

\* ------------------------------------------------------------------ insert
\* int i = n_keys - 1; while (i >= 0 && key < keys[i]) i--;  gives i + 1
InsertIdx(node, key) ==
  CHOOSE p \in 0..node.n_keys :
     /\ (p = 0 \/ ~(key < At(node.keys, p - 1)))
     /\ \A j \in p..(node.n_keys - 1) : key < At(node.keys, j)

\* The leaf branch of node_insert_non_full: keys above the new one move one
\* place right, the pair goes to its place.
LeafInsert(node, key, value, ord) ==
  LET p == InsertIdx(node, key) IN
  [node EXCEPT
     !.n_keys = node.n_keys + 1,
     !.keys = [j \in 1..(ord - 1) |->
                 LET i == j - 1 IN
                 IF i = p THEN key
                 ELSE IF i > p /\ i <= node.n_keys THEN At(node.keys, i - 1)
                 ELSE At(node.keys, i)],
     !.values = [j \in 1..(ord - 1) |->
                 LET i == j - 1 IN
                 IF i = p THEN value
                 ELSE IF i > p /\ i <= node.n_keys THEN At(node.values, i - 1)
                 ELSE At(node.values, i)]]

RECURSIVE node_insert_non_full(_, _, _, _, _)
\* Result: status, the node as left in memory, the file.
node_insert_non_full(node, key, value, ord, f) ==
  IF node = NULL
  THEN [status |-> BTREE_ERROR_INVALID_PARAM, node |-> node, file |-> f]
  ELSE IF node.is_leaf
  THEN LET n2 == LeafInsert(node, key, value, ord) IN
       [status |-> BTREE_SUCCESS, node |-> n2, file |-> disk_write(f, n2, ord)]
  ELSE
  LET i == InsertIdx(node, key)
      child == disk_read(f, ord, At(node.children, i))
  IN
  IF child = NULL
  THEN [status |-> BTREE_ERROR_IO, node |-> node, file |-> f]
  ELSE IF child.n_keys = ord - 1
  THEN LET sp == node_split_child(node, i, ord, child, f) IN
       IF sp.status # BTREE_SUCCESS
       THEN [status |-> sp.status, node |-> sp.parent, file |-> sp.file]
       ELSE
       \* *node = *updated_node: the node becomes the copy read back
       LET updated_node == disk_read(sp.file, ord, node.bin_pos)
           i2 == IF At(updated_node.keys, i) < key THEN i + 1 ELSE i
           child3 == IF i2 = i THEN sp.child
                     ELSE disk_read(sp.file, ord, At(updated_node.children, i2))
       IN IF updated_node = NULL \/ child3 = NULL
          THEN [status |-> BTREE_ERROR_IO, node |-> sp.parent, file |-> sp.file]
          ELSE LET r == node_insert_non_full(child3, key, value, ord, sp.file) IN
               [status |-> r.status, node |-> updated_node, file |-> r.file]
  ELSE LET r == node_insert_non_full(child, key, value, ord, f) IN
       [status |-> r.status, node |-> node, file |-> r.file]

\* Result: status, *root, the file.
node_insert(rt, key, value, ord, f) ==
  LET fnd == node_search(rt, key, -1, f, ord) IN
  IF rt # NULL /\ fnd.node # NULL
  THEN \* the key exists: overwrite its payload and write the node back
       LET upd == [fnd.node EXCEPT !.values = SetAt(@, fnd.pos, value)] IN
       [status |-> BTREE_SUCCESS,
        root |-> IF fnd.node.bin_pos = rt.bin_pos THEN upd ELSE rt,
        file |-> disk_write(f, upd, ord)]
  ELSE IF rt = NULL
  THEN LET root_pos == FileSlots(f)
           r0 == node_create(TRUE, ord, root_pos)
           r1 == [r0 EXCEPT !.keys = SetAt(@, 0, key),
                            !.values = SetAt(@, 0, value),
                            !.n_keys = 1]
       IN [status |-> BTREE_SUCCESS, root |-> r1,
           file |-> disk_write(f, r1, ord)]
  ELSE IF rt.n_keys = ord - 1
  THEN LET new_root_pos == FileSlots(f)
           nr0 == node_create(FALSE, ord, new_root_pos)
           new_root == [nr0 EXCEPT !.children = SetAt(@, 0, rt.bin_pos)]
           sp == node_split_child(new_root, 0, ord, rt, f)
       IN IF sp.status # BTREE_SUCCESS
          THEN [status |-> sp.status, root |-> sp.child, file |-> sp.file]
          ELSE LET r == node_insert_non_full(sp.parent, key, value, ord, sp.file)
               IN [status |-> r.status, root |-> r.node, file |-> r.file]
  ELSE LET r == node_insert_non_full(rt, key, value, ord, f)
       IN [status |-> r.status, root |-> r.node, file |-> r.file]

\* ------------------------------------------------------------------- merge
\* Result: status, the parent as left in memory, the file.
node_merge(parent, idx, ord, f) ==
  IF parent = NULL \/ idx < 0 \/ idx >= parent.n_keys
  THEN [status |-> BTREE_ERROR_INVALID_PARAM, node |-> parent, file |-> f]
  ELSE
  LET l_child == disk_read(f, ord, At(parent.children, idx))
      r_child == disk_read(f, ord, At(parent.children, idx + 1))
  IN
  IF l_child = NULL \/ r_child = NULL
  THEN [status |-> BTREE_ERROR_IO, node |-> parent, file |-> f]
  ELSE
  LET ln == l_child.n_keys
      rn == r_child.n_keys
      l2 == [l_child EXCEPT
               !.n_keys = ln + rn + 1,
               !.keys = [j \in 1..(ord - 1) |->
                           LET i == j - 1 IN
                           IF i = ln THEN At(parent.keys, idx)
                           ELSE IF i > ln /\ i <= ln + rn
                                THEN At(r_child.keys, i - ln - 1)
                           ELSE At(l_child.keys, i)],
               !.values = [j \in 1..(ord - 1) |->
                           LET i == j - 1 IN
                           IF i = ln THEN At(parent.values, idx)
                           ELSE IF i > ln /\ i <= ln + rn
                                THEN At(r_child.values, i - ln - 1)
                           ELSE At(l_child.values, i)],
               !.children = [j \in 1..ord |->
                           LET i == j - 1 IN
                           IF ~l_child.is_leaf /\ i > ln /\ i <= ln + rn + 1
                           THEN At(r_child.children, i - ln - 1)
                           ELSE At(l_child.children, i)]]
      pn == parent.n_keys
      p2 == [parent EXCEPT
               !.n_keys = pn - 1,
               !.keys = [j \in 1..(ord - 1) |->
                           LET i == j - 1 IN
                           IF i = pn - 1 THEN -1
                           ELSE IF i >= idx /\ i < pn - 1
                                THEN At(parent.keys, i + 1)
                           ELSE At(parent.keys, i)],
               !.values = [j \in 1..(ord - 1) |->
                           LET i == j - 1 IN
                           IF i = pn - 1 THEN -1
                           ELSE IF i >= idx /\ i < pn - 1
                                THEN At(parent.values, i + 1)
                           ELSE At(parent.values, i)],
               !.children = [j \in 1..ord |->
                           LET i == j - 1 IN
                           IF i = pn THEN -1
                           ELSE IF i >= idx + 1 /\ i < pn
                                THEN At(parent.children, i + 1)
                           ELSE At(parent.children, i)]]
      f1 == disk_write(f, l2, ord)
      f2 == disk_write(f1, p2, ord)
  IN [status |-> BTREE_SUCCESS, node |-> p2, file |-> f2]

\* ------------------------------------------------------------------ remove
node_remove_from_leaf(node, idx, f, ord) ==
  IF node = NULL \/ idx < 0 \/ idx >= node.n_keys
  THEN [status |-> BTREE_ERROR_INVALID_PARAM, node |-> node, file |-> f]
  ELSE
  LET n == node.n_keys
      n2 == [node EXCEPT
               !.n_keys = n - 1,
               !.keys = [j \in 1..(ord - 1) |->
                           LET i == j - 1 IN
                           IF i = n - 1 THEN -1
                           ELSE IF i >= idx /\ i < n - 1 THEN At(node.keys, i + 1)
                           ELSE At(node.keys, i)],
               !.values = [j \in 1..(ord - 1) |->
                           LET i == j - 1 IN
                           IF i = n - 1 THEN -1
                           ELSE IF i >= idx /\ i < n - 1 THEN At(node.values, i + 1)
                           ELSE At(node.values, i)]]
  IN [status |-> BTREE_SUCCESS, node |-> n2, file |-> disk_write(f, n2, ord)]

RECURSIVE DescendLast(_, _, _)
\* while (!curr->is_leaf) curr = disk_read(children[n_keys]); the last key
DescendLast(curr, f, ord) ==
  IF curr = NULL THEN [status |-> BTREE_ERROR_IO, key |-> -1]
  ELSE IF ~curr.is_leaf
  THEN IF At(curr.children, curr.n_keys) = -1
       THEN [status |-> BTREE_ERROR_INVALID_PARAM, key |-> -1]
       ELSE DescendLast(disk_read(f, ord, At(curr.children, curr.n_keys)), f, ord)
  ELSE IF curr.n_keys <= 0
  THEN [status |-> BTREE_ERROR_INVALID_PARAM, key |-> -1]
  ELSE [status |-> BTREE_SUCCESS, key |-> At(curr.keys, curr.n_keys - 1)]

node_predecessor(node, idx, f, ord) ==
  IF node = NULL \/ idx < 0 \/ idx >= node.n_keys \/ node.is_leaf
  THEN [status |-> BTREE_ERROR_INVALID_PARAM, key |-> -1]
  ELSE DescendLast(disk_read(f, ord, At(node.children, idx)), f, ord)

RECURSIVE DescendFirst(_, _, _)
\* while (!curr->is_leaf) curr = disk_read(children[0]); the first key
DescendFirst(curr, f, ord) ==
  IF curr = NULL THEN [status |-> BTREE_ERROR_IO, key |-> -1]
  ELSE IF ~curr.is_leaf
  THEN IF At(curr.children, 0) = -1
       THEN [status |-> BTREE_ERROR_INVALID_PARAM, key |-> -1]
       ELSE DescendFirst(disk_read(f, ord, At(curr.children, 0)), f, ord)
  ELSE IF curr.n_keys <= 0
  THEN [status |-> BTREE_ERROR_INVALID_PARAM, key |-> -1]
  ELSE [status |-> BTREE_SUCCESS, key |-> At(curr.keys, 0)]

node_successor(node, idx, f, ord) ==
  IF node = NULL \/ idx < 0 \/ idx >= node.n_keys \/ node.is_leaf
  THEN [status |-> BTREE_ERROR_INVALID_PARAM, key |-> -1]
  ELSE DescendFirst(disk_read(f, ord, At(node.children, idx + 1)), f, ord)

\* Case 3a-left of node_ensure_min_keys: one key moves from the left sibling
\* through the parent into the child.  Result: status, parent, file.
BorrowFromLeft(node, idx, child, l_sibling, ord, f) ==
  LET cn == child.n_keys
      sn == l_sibling.n_keys
      c2 == [child EXCEPT
               !.n_keys = cn + 1,
               !.keys = [j \in 1..(ord - 1) |->
                           LET i == j - 1 IN
                           IF i = 0 THEN At(node.keys, idx - 1)
                           ELSE IF i <= cn THEN At(child.keys, i - 1)
                           ELSE At(child.keys, i)],
               !.values = [j \in 1..(ord - 1) |->
                           LET i == j - 1 IN
                           IF i = 0 THEN At(node.values, idx - 1)
                           ELSE IF i <= cn THEN At(child.values, i - 1)
                           ELSE At(child.values, i)],
               !.children = [j \in 1..ord |->
                           LET i == j - 1 IN
                           IF child.is_leaf THEN At(child.children, i)
                           ELSE IF i = 0 THEN At(l_sibling.children, sn)
                           ELSE IF i <= cn + 1 THEN At(child.children, i - 1)
                           ELSE At(child.children, i)]]
      n2 == [node EXCEPT
               !.keys = SetAt(@, idx - 1, At(l_sibling.keys, sn - 1)),
               !.values = SetAt(@, idx - 1, At(l_sibling.values, sn - 1))]
      s2 == [l_sibling EXCEPT
               !.n_keys = sn - 1,
               !.keys = SetAt(@, sn - 1, -1),
               !.values = SetAt(@, sn - 1, -1),
               !.children = IF l_sibling.is_leaf THEN @ ELSE SetAt(@, sn, -1)]
      f1 == disk_write(f, c2, ord)
      f2 == disk_write(f1, s2, ord)
      f3 == disk_write(f2, n2, ord)
  IN [status |-> BTREE_SUCCESS, node |-> n2, file |-> f3]

\* Case 3a-right: one key moves from the right sibling through the parent.
BorrowFromRight(node, idx, child, r_sibling, ord, f) ==
  LET cn == child.n_keys
      sn == r_sibling.n_keys
      c2 == [child EXCEPT
               !.n_keys = cn + 1,
               !.keys = SetAt(@, cn, At(node.keys, idx)),
               !.values = SetAt(@, cn, At(node.values, idx)),
               !.children = IF child.is_leaf THEN @
                            ELSE SetAt(@, cn + 1, At(r_sibling.children, 0))]
      n2 == [node EXCEPT
               !.keys = SetAt(@, idx, At(r_sibling.keys, 0)),
               !.values = SetAt(@, idx, At(r_sibling.values, 0))]
      s2 == [r_sibling EXCEPT
               !.n_keys = sn - 1,
               !.keys = [j \in 1..(ord - 1) |->
                           LET i == j - 1 IN
                           IF i = sn - 1 THEN -1
                           ELSE IF i < sn - 1 THEN At(r_sibling.keys, i + 1)
                           ELSE At(r_sibling.keys, i)],
               !.values = [j \in 1..(ord - 1) |->
                           LET i == j - 1 IN
                           IF i = sn - 1 THEN -1
                           ELSE IF i < sn - 1 THEN At(r_sibling.values, i + 1)
                           ELSE At(r_sibling.values, i)],
               !.children = [j \in 1..ord |->
                           LET i == j - 1 IN
                           IF r_sibling.is_leaf THEN At(r_sibling.children, i)
                           ELSE IF i = sn THEN -1
                           ELSE IF i < sn THEN At(r_sibling.children, i + 1)
                           ELSE At(r_sibling.children, i)]]
      f1 == disk_write(f, c2, ord)
      f2 == disk_write(f1, s2, ord)
      f3 == disk_write(f2, n2, ord)
  IN [status |-> BTREE_SUCCESS, node |-> n2, file |-> f3]

\* Result: status, the parent as left in memory, the file.
node_ensure_min_keys(node, idx, ord, f) ==
  IF node = NULL \/ idx < 0 \/ idx > node.n_keys
  THEN [status |-> BTREE_ERROR_INVALID_PARAM, node |-> node, file |-> f]
  ELSE
  LET child == disk_read(f, ord, At(node.children, idx))
      t == CeilHalf(ord)
      l_sibling == disk_read(f, ord, At(node.children, idx - 1))
      r_sibling == disk_read(f, ord, At(node.children, idx + 1))
  IN
  IF child = NULL
  THEN [status |-> BTREE_ERROR_IO, node |-> node, file |-> f]
  ELSE IF child.n_keys >= t
  THEN [status |-> BTREE_SUCCESS, node |-> node, file |-> f]
  ELSE IF idx > 0 /\ l_sibling = NULL
  THEN [status |-> BTREE_ERROR_IO, node |-> node, file |-> f]
  ELSE IF idx > 0 /\ l_sibling.n_keys >= t
  THEN BorrowFromLeft(node, idx, child, l_sibling, ord, f)
  ELSE IF idx < node.n_keys /\ r_sibling = NULL
  THEN [status |-> BTREE_ERROR_IO, node |-> node, file |-> f]
  ELSE IF idx < node.n_keys /\ r_sibling.n_keys >= t
  THEN BorrowFromRight(node, idx, child, r_sibling, ord, f)
  ELSE IF idx < node.n_keys
  THEN node_merge(node, idx, ord, f)
  ELSE node_merge(node, idx - 1, ord, f)

RECURSIVE node_remove(_, _, _, _)
RECURSIVE node_remove_from_internal(_, _, _, _)
\* Result: status, the node as left in memory, the file.
node_remove_from_internal(node, idx, ord, f) ==
  IF node = NULL \/ idx < 0 \/ idx >= node.n_keys
  THEN [status |-> BTREE_ERROR_INVALID_PARAM, node |-> node, file |-> f]
  ELSE
  LET key == At(node.keys, idx)
      t == CeilHalf(ord)
      left_child == disk_read(f, ord, At(node.children, idx))
      right_child == disk_read(f, ord, At(node.children, idx + 1))
  IN
  IF left_child = NULL
  THEN [status |-> BTREE_ERROR_IO, node |-> node, file |-> f]
  ELSE IF left_child.n_keys >= t
  THEN \* case 2a: keys[idx] and values[idx] both become the predecessor key
       LET pr == node_predecessor(node, idx, f, ord) IN
       IF pr.status # BTREE_SUCCESS
       THEN [status |-> pr.status, node |-> node, file |-> f]
       ELSE LET n2 == [node EXCEPT !.keys = SetAt(@, idx, pr.key),
                                   !.values = SetAt(@, idx, pr.key)]
                f1 == disk_write(f, n2, ord)
                child == disk_read(f1, ord, At(n2.children, idx))
            IN IF child = NULL
               THEN [status |-> BTREE_ERROR_IO, node |-> n2, file |-> f1]
               ELSE LET r == node_remove(child, pr.key, ord, f1) IN
                    [status |-> r.status, node |-> n2, file |-> r.file]
  ELSE IF right_child = NULL
  THEN [status |-> BTREE_ERROR_IO, node |-> node, file |-> f]
  ELSE IF right_child.n_keys >= t
  THEN \* case 2b: the same with the successor key
       LET su == node_successor(node, idx, f, ord) IN
       IF su.status # BTREE_SUCCESS
       THEN [status |-> su.status, node |-> node, file |-> f]
       ELSE LET n2 == [node EXCEPT !.keys = SetAt(@, idx, su.key),
                                   !.values = SetAt(@, idx, su.key)]
                f1 == disk_write(f, n2, ord)
                child == disk_read(f1, ord, At(n2.children, idx + 1))
            IN IF child = NULL
               THEN [status |-> BTREE_ERROR_IO, node |-> n2, file |-> f1]
               ELSE LET r == node_remove(child, su.key, ord, f1) IN
                    [status |-> r.status, node |-> n2, file |-> r.file]
  ELSE \* case 2c: merge, then remove the key from the merged child
       LET m == node_merge(node, idx, ord, f) IN
       IF m.status # BTREE_SUCCESS
       THEN [status |-> m.status, node |-> m.node, file |-> m.file]
       ELSE LET child == disk_read(m.file, ord, At(m.node.children, idx)) IN
            IF child = NULL
            THEN [status |-> BTREE_ERROR_IO, node |-> m.node, file |-> m.file]
            ELSE LET r == node_remove(child, key, ord, m.file) IN
                 [status |-> r.status, node |-> m.node, file |-> r.file]

node_remove(node, key, ord, f) ==
  IF node = NULL
  THEN [status |-> BTREE_ERROR_NOT_FOUND, node |-> node, file |-> f]
  ELSE
  LET idx == ScanIdx(node, key) IN
  IF idx < node.n_keys /\ key = At(node.keys, idx)
  THEN IF node.is_leaf THEN node_remove_from_leaf(node, idx, f, ord)
       ELSE node_remove_from_internal(node, idx, ord, f)
  ELSE IF node.is_leaf
  THEN [status |-> BTREE_ERROR_NOT_FOUND, node |-> node, file |-> f]
  ELSE
  LET is_last == (idx = node.n_keys)
      e == node_ensure_min_keys(node, idx, ord, f)
  IN
  IF e.status # BTREE_SUCCESS
  THEN [status |-> e.status, node |-> e.node, file |-> e.file]
  ELSE
  LET updated_node == disk_read(e.file, ord, node.bin_pos) IN
  IF updated_node = NULL
  THEN [status |-> BTREE_ERROR_IO, node |-> e.node, file |-> e.file]
  ELSE
  LET idx2 == IF is_last /\ idx > updated_node.n_keys THEN idx - 1 ELSE idx
      child == disk_read(e.file, ord, At(updated_node.children, idx2))
  IN IF child = NULL
     THEN [status |-> BTREE_ERROR_IO, node |-> e.node, file |-> e.file]
     ELSE LET r == node_remove(child, key, ord, e.file) IN
          [status |-> r.status, node |-> e.node, file |-> r.file]

\* ------------------------------------------------------------ termination
RECURSIVE SearchEnds(_, _, _, _, _)
\* node_search ends within fuel descents to a child.
SearchEnds(node, key, f, ord, fuel) ==
  IF node = NULL THEN TRUE
  ELSE LET i == ScanIdx(node, key) IN
    IF i < node.n_keys /\ key = At(node.keys, i) THEN TRUE
    ELSE IF node.is_leaf \/ At(node.children, i) = -1 THEN TRUE
    ELSE LET child == disk_read(f, ord, At(node.children, i)) IN
         IF child = NULL THEN TRUE
         ELSE IF fuel = 0 THEN FALSE
         ELSE SearchEnds(child, key, f, ord, fuel - 1)

RECURSIVE node_destroy(_, _, _, _)
RECURSIVE DestroyLoop(_, _, _, _, _)
\* The loop of node_destroy from child i on: each child that can be read is
\* unlinked from node, node is written, and the child is destroyed.
DestroyLoop(node, i, f, ord, fuel) ==
  IF i > node.n_keys THEN [file |-> f, done |-> TRUE]
  ELSE IF At(node.children, i) = -1
  THEN DestroyLoop(node, i + 1, f, ord, fuel)
  ELSE LET child == disk_read(f, ord, At(node.children, i)) IN
       IF child = NULL THEN DestroyLoop(node, i + 1, f, ord, fuel)
       ELSE LET node2 == [node EXCEPT !.children = SetAt(@, i, -1)]
                f1 == disk_write(f, node2, ord)
                d == node_destroy(child, f1, ord, fuel - 1)
            IN IF ~d.done THEN d
               ELSE DestroyLoop(node2, i + 1, d.file, ord, fuel)

\* node_destroy: the file it leaves, and whether it ended within fuel nested
\* calls.
node_destroy(node, f, ord, fuel) ==
  IF node = NULL THEN [file |-> f, done |-> TRUE]
  ELSE IF fuel = 0 THEN [file |-> f, done |-> FALSE]
  ELSE IF ~node.is_leaf THEN DestroyLoop(node, 0, f, ord, fuel)
  ELSE [file |-> f, done |-> TRUE]

\* ------------------------------------------- node copies held and released
\* What a call leaves behind in memory: held counts the node copies it got
\* from disk_read or node_create that are still allocated when it returns
\* (the node kept as tree->root and a node returned by search aside);
\* dangling says that it read, wrote or released a buffer already released.
Mm(h, d) == [held |-> h, dangling |-> d]

MmAdd(a, b) == Mm(a.held + b.held, a.dangling \/ b.dangling)

\* node_split_child: new_node is released on each return after its creation.
node_split_child_mm == Mm(0, FALSE)

\* A merge that returns without releasing the right child.
node_merge_mm_Mut == Mm(1, FALSE)

\* node_merge: l_child and r_child are released on each return after they
\* were read.
node_merge_mm == Mm(0, FALSE)

\* node_predecessor, node_successor: curr is released before next replaces
\* it and on each return.
node_predecessor_mm == Mm(0, FALSE)

\* node_ensure_min_keys: child and the sibling read are released on each
\* return; the merge is called after child was released.
node_ensure_min_keys_mm == node_merge_mm

RECURSIVE node_search_mm(_, _, _, _)
\* node_search: the child read is released unless it is the node returned.
node_search_mm(node, key, f, ord) ==
  IF node = NULL THEN Mm(0, FALSE)
  ELSE LET i == ScanIdx(node, key) IN
    IF i < node.n_keys /\ key = At(node.keys, i) THEN Mm(0, FALSE)
    ELSE IF node.is_leaf \/ At(node.children, i) = -1 THEN Mm(0, FALSE)
    ELSE LET child == disk_read(f, ord, At(node.children, i)) IN
         IF child = NULL THEN Mm(0, FALSE)
         ELSE node_search_mm(child, key, f, ord)

RECURSIVE node_insert_non_full_mm(_, _, _, _, _)
node_insert_non_full_mm(node, key, value, ord, f) ==
  IF node = NULL \/ node.is_leaf THEN Mm(0, FALSE)
  ELSE
  LET i == InsertIdx(node, key)
      child == disk_read(f, ord, At(node.children, i))
  IN
  IF child = NULL THEN Mm(0, FALSE)
  ELSE IF child.n_keys = ord - 1
  THEN LET sp == node_split_child(node, i, ord, child, f) IN
       IF sp.status # BTREE_SUCCESS THEN node_split_child_mm
       ELSE
       LET updated_node == disk_read(sp.file, ord, node.bin_pos) IN
       \* return BTREE_ERROR_IO with child still allocated
       IF updated_node = NULL THEN MmAdd(node_split_child_mm, Mm(1, FALSE))
       ELSE
       \* *node = *updated_node; node_free(updated_node): the arrays node
       \* had are no longer referenced and the arrays it now refers to are
       \* released; node->keys[i] is read next
       LET i2 == IF At(updated_node.keys, i) < key THEN i + 1 ELSE i
           child3 == IF i2 = i THEN sp.child
                     ELSE disk_read(sp.file, ord, At(updated_node.children, i2))
       IN IF child3 = NULL THEN Mm(1, TRUE)
          ELSE MmAdd(Mm(1, TRUE),
                     node_insert_non_full_mm(child3, key, value, ord, sp.file))
  ELSE node_insert_non_full_mm(child, key, value, ord, f)

\* node_insert: a node found below the root is released after the write; the
\* first root and the new root of a split are kept as *root, the old root is
\* released.
node_insert_mm(rt, key, value, ord, f) ==
  LET fnd == node_search(rt, key, -1, f, ord) IN
  IF rt # NULL /\ fnd.node # NULL THEN node_search_mm(rt, key, f, ord)
  ELSE IF rt = NULL THEN Mm(0, FALSE)
  ELSE IF rt.n_keys = ord - 1
  THEN LET new_root_pos == FileSlots(f)
           nr0 == node_create(FALSE, ord, new_root_pos)
           new_root == [nr0 EXCEPT !.children = SetAt(@, 0, rt.bin_pos)]
           sp == node_split_child(new_root, 0, ord, rt, f)
       IN IF sp.status # BTREE_SUCCESS THEN node_split_child_mm
          ELSE MmAdd(node_split_child_mm,
                     node_insert_non_full_mm(sp.parent, key, value, ord, sp.file))
  ELSE MmAdd(node_search_mm(rt, key, f, ord),
             node_insert_non_full_mm(rt, key, value, ord, f))

RECURSIVE node_remove_mm(_, _, _, _)
RECURSIVE node_remove_from_internal_mm(_, _, _, _)
\* node_remove_from_internal: left_child and right_child are released before
\* the case is carried out; the child read for the recursive call is
\* released after it.
node_remove_from_internal_mm(node, idx, ord, f) ==
  IF node = NULL \/ idx < 0 \/ idx >= node.n_keys THEN Mm(0, FALSE)
  ELSE
  LET key == At(node.keys, idx)
      t == CeilHalf(ord)
      left_child == disk_read(f, ord, At(node.children, idx))
      right_child == disk_read(f, ord, At(node.children, idx + 1))
  IN
  IF left_child = NULL THEN Mm(0, FALSE)
  ELSE IF left_child.n_keys >= t
  THEN LET pr == node_predecessor(node, idx, f, ord) IN
       IF pr.status # BTREE_SUCCESS THEN node_predecessor_mm
       ELSE LET n2 == [node EXCEPT !.keys = SetAt(@, idx, pr.key),
                                   !.values = SetAt(@, idx, pr.key)]
                f1 == disk_write(f, n2, ord)
                child == disk_read(f1, ord, At(n2.children, idx))
            IN IF child = NULL THEN node_predecessor_mm
               ELSE MmAdd(node_predecessor_mm,
                          node_remove_mm(child, pr.key, ord, f1))
  ELSE IF right_child = NULL THEN Mm(0, FALSE)
  ELSE IF right_child.n_keys >= t
  THEN LET su == node_successor(node, idx, f, ord) IN
       IF su.status # BTREE_SUCCESS THEN node_predecessor_mm
       ELSE LET n2 == [node EXCEPT !.keys = SetAt(@, idx, su.key),
                                   !.values = SetAt(@, idx, su.key)]
                f1 == disk_write(f, n2, ord)
                child == disk_read(f1, ord, At(n2.children, idx + 1))
            IN IF child = NULL THEN node_predecessor_mm
               ELSE MmAdd(node_predecessor_mm,
                          node_remove_mm(child, su.key, ord, f1))
  ELSE LET m == node_merge(node, idx, ord, f) IN
       IF m.status # BTREE_SUCCESS THEN node_merge_mm
       ELSE LET child == disk_read(m.file, ord, At(m.node.children, idx)) IN
            IF child = NULL THEN node_merge_mm
            ELSE MmAdd(node_merge_mm, node_remove_mm(child, key, ord, m.file))

\* node_remove: updated_node and child are released after the recursive
\* call, updated_node also when child cannot be read.
node_remove_mm(node, key, ord, f) ==
  IF node = NULL THEN Mm(0, FALSE)
  ELSE
  LET idx == ScanIdx(node, key) IN
  IF idx < node.n_keys /\ key = At(node.keys, idx)
  THEN IF node.is_leaf THEN Mm(0, FALSE)
       ELSE node_remove_from_internal_mm(node, idx, ord, f)
  ELSE IF node.is_leaf THEN Mm(0, FALSE)
  ELSE
  LET is_last == (idx = node.n_keys)
      e == node_ensure_min_keys(node, idx, ord, f)
  IN
  IF e.status # BTREE_SUCCESS THEN node_ensure_min_keys_mm
  ELSE
  LET updated_node == disk_read(e.file, ord, node.bin_pos) IN
  IF updated_node = NULL THEN node_ensure_min_keys_mm
  ELSE
  LET idx2 == IF is_last /\ idx > updated_node.n_keys THEN idx - 1 ELSE idx
      child == disk_read(e.file, ord, At(updated_node.children, idx2))
  IN IF child = NULL THEN node_ensure_min_keys_mm
     ELSE MmAdd(node_ensure_min_keys_mm,
                node_remove_mm(child, key, ord, e.file))

\* ------------------------------------------------------------ the facade
NoResult == [node |-> NULL, pos |-> -1]

\* btree_create(order, "database", "w+b"): an empty file, no root.
Init ==
  /\ tree = TRUE
  /\ fault = "none"
  /\ mem = NoMem
  /\ order \in Orders
  /\ file = << >>
  /\ root = NULL
  /\ n_nodes = 0
  /\ status = "NONE"
  /\ lastOp = [op |-> "create", key |-> 0, value |-> 0]
  /\ found = NoResult
  /\ wnode = NULL
  /\ rnode = NULL

\* btree_insert: n_nodes and the word at byte 0 are incremented on every
\* successful call.
Insert(k, v) ==
  /\ n_nodes < MaxNodes
  /\ \E r \in {node_insert(root, k, v, order, file)} :
     /\ status' = r.status
     /\ root' = r.root
     /\ n_nodes' = IF r.status = BTREE_SUCCESS THEN n_nodes + 1 ELSE n_nodes
     /\ file' = IF r.status = BTREE_SUCCESS THEN update_node_count(r.file)
                ELSE r.file
  /\ lastOp' = [op |-> "insert", key |-> k, value |-> v]
  /\ found' = NoResult
  /\ UNCHANGED <<tree, fault, mem, order, wnode, rnode>>

\* The value a size_t 0 wraps to when decremented, 2^64 - 1; TLC's integers
\* are 32 bits wide, so it is written as the 32-bit all-ones value.
SIZE_MAX == -1

\* A remove that counts a node off whatever node_remove returned.
Remove_Mut(k) ==
  /\ \E r \in {node_remove(root, k, order, file)} :
     /\ status' = r.status
     /\ root' = r.node
     /\ file' = r.file
     /\ n_nodes' = IF n_nodes = 0 THEN SIZE_MAX ELSE n_nodes - 1
  /\ lastOp' = [op |-> "remove", key |-> k, value |-> 0]
  /\ found' = NoResult
  /\ UNCHANGED <<tree, fault, mem, order, wnode, rnode>>

\* btree_remove: n_nodes (a size_t) is decremented on every successful call.
Remove(k) ==
  /\ \E r \in {node_remove(root, k, order, file)} :
     /\ status' = r.status
     /\ root' = r.node
     /\ file' = r.file
     /\ n_nodes' = IF r.status = BTREE_SUCCESS
                   THEN (IF n_nodes = 0 THEN SIZE_MAX ELSE n_nodes - 1)
                   ELSE n_nodes
  /\ lastOp' = [op |-> "remove", key |-> k, value |-> 0]
  /\ found' = NoResult
  /\ UNCHANGED <<tree, fault, mem, order, wnode, rnode>>

\* A search that writes the node it found back to the file.
Search_Mut(k, p0) ==
  /\ found' = btree_search(k, p0)
  /\ file' = IF btree_search(k, p0).node # NULL
             THEN disk_write(file, btree_search(k, p0).node, order)
             ELSE file
  /\ lastOp' = [op |-> "search", key |-> k, value |-> 0]
  /\ UNCHANGED <<tree, fault, mem, order, root, n_nodes, status, wnode, rnode>>

\* btree_search with the caller's pos holding p0 before the call.
Search(k, p0) ==
  /\ found' = btree_search(k, p0)
  /\ lastOp' = [op |-> "search", key |-> k, value |-> 0]
  /\ UNCHANGED <<tree, fault, mem, order, file, root, n_nodes, status, wnode, rnode>>

Next ==
  \/ \E k \in Keys, v \in Vals : Insert(k, v)
  \/ \E k \in Keys : Remove(k)
  \/ \E k \in Keys, p0 \in {-1, 0} : Search(k, p0)

Spec == Init /\ [][Next]_vars

\* ------------------------------------------------ calls with an I/O failure
\* fault names the file operation that failed during the last call; no call
\* follows a failed one.

\* btree_insert when the seek, read or write of update_node_count fails:
\* update_node_count returns void and tests no result, so the count in the
\* file is left as node_insert wrote it.
InsertHeaderFault(k, v) ==
  /\ n_nodes < MaxNodes
  /\ \E r \in {node_insert(root, k, v, order, file)} :
     /\ r.status = BTREE_SUCCESS
     /\ status' = r.status
     /\ root' = r.root
     /\ n_nodes' = n_nodes + 1
     /\ file' = r.file
  /\ fault' = "header"
  /\ lastOp' = [op |-> "insert", key |-> k, value |-> v]
  /\ found' = NoResult
  /\ UNCHANGED <<tree, mem, order, wnode, rnode>>

\* btree_insert of a new key when the disk_write of the leaf root fails: the
\* first root is freed and *root reset; an existing leaf root keeps the key
\* in memory.
InsertWriteFault(k, v) ==
  /\ n_nodes < MaxNodes
  /\ root = NULL \/ (root.is_leaf /\ root.n_keys < order - 1
                       /\ node_search(root, k, -1, file, order).node = NULL)
  /\ root' = IF root = NULL THEN NULL ELSE LeafInsert(root, k, v, order)
  /\ status' = BTREE_ERROR_IO
  /\ fault' = "write"
  /\ lastOp' = [op |-> "insert", key |-> k, value |-> v]
  /\ found' = NoResult
  /\ UNCHANGED <<tree, mem, order, file, n_nodes, wnode, rnode>>

\* btree_remove of a key of the leaf root when the disk_write of
\* node_remove_from_leaf fails.
RemoveWriteFault(k) ==
  /\ root # NULL
  /\ root.is_leaf
  /\ ScanIdx(root, k) < root.n_keys
  /\ At(root.keys, ScanIdx(root, k)) = k
  /\ root' = node_remove_from_leaf(root, ScanIdx(root, k), file, order).node
  /\ status' = BTREE_ERROR_IO
  /\ fault' = "write"
  /\ lastOp' = [op |-> "remove", key |-> k, value |-> 0]
  /\ found' = NoResult
  /\ UNCHANGED <<tree, mem, order, file, n_nodes, wnode, rnode>>

FaultNext ==
  /\ fault = "none"
  /\ \/ \E k \in Keys, v \in Vals : Insert(k, v)
     \/ \E k \in Keys : Remove(k)
     \/ \E k \in Keys, v \in Vals : InsertHeaderFault(k, v)
     \/ \E k \in Keys, v \in Vals : InsertWriteFault(k, v)
     \/ \E k \in Keys : RemoveWriteFault(k)

SpecFault == Init /\ [][FaultNext]_vars

\* ------------------------------------------------------ scenario S1
\* The keys of scenario S1 in the order they are inserted, into an empty
\* tree of order 4.
S1Keys == <<10, 20, 5, 6, 12, 30, 7, 17>>

S1Init ==
  /\ tree = TRUE
  /\ fault = "none"
  /\ mem = NoMem
  /\ order = 4
  /\ file = << >>
  /\ root = NULL
  /\ n_nodes = 0
  /\ status = "NONE"
  /\ lastOp = [op |-> "create", key |-> 0, value |-> 0]
  /\ found = NoResult
  /\ wnode = NULL
  /\ rnode = NULL

\* btree_insert of the next key of the scenario; n_nodes counts the
\* successful inserts so far.
S1Insert(v) ==
  /\ n_nodes < Len(S1Keys)
  /\ \E r \in {node_insert(root, S1Keys[n_nodes + 1], v, order, file)} :
     /\ status' = r.status
     /\ root' = r.root
     /\ n_nodes' = IF r.status = BTREE_SUCCESS THEN n_nodes + 1 ELSE n_nodes
     /\ file' = IF r.status = BTREE_SUCCESS THEN update_node_count(r.file)
                ELSE r.file
  /\ lastOp' = [op |-> "insert", key |-> S1Keys[n_nodes + 1], value |-> v]
  /\ found' = NoResult
  /\ UNCHANGED <<tree, fault, mem, order, wnode, rnode>>

S1Next ==
  \/ \E v \in Vals : S1Insert(v)
  \/ \E k \in {S1Keys[i] : i \in 1..Len(S1Keys)} \cup {8}, p0 \in {-1, 0} :
        Search(k, p0)

SpecS1 == S1Init /\ [][S1Next]_vars

\* --------------------------------------------- the node store on its own
MaxSlot == 1

\* Nodes handed to disk_write: n_keys ascending keys from k0, one payload.
StoreNodes(ord) ==
  { [n_keys |-> n, is_leaf |-> l, bin_pos |-> p,
     keys |-> [j \in 1..(ord - 1) |-> IF j <= n THEN k0 + j - 1 ELSE -1],
     values |-> [j \in 1..(ord - 1) |-> IF j <= n THEN v ELSE -1],
     children |-> [j \in 1..ord |-> IF ~l /\ j <= n + 1 THEN j + 1 ELSE -1]] :
    n \in 0..(ord - 1), l \in BOOLEAN, p \in 0..MaxSlot, k0 \in 1..2,
    v \in Vals }

StoreInit ==
  /\ tree = TRUE
  /\ fault = "none"
  /\ mem = NoMem
  /\ order \in Orders
  /\ file = << >>
  /\ wnode = NULL
  /\ rnode = NULL
  /\ root = NULL
  /\ n_nodes = 0
  /\ status = "NONE"
  /\ lastOp = [op |-> "create", key |-> 0, value |-> 0]
  /\ found = NoResult

StoreWrite(n) ==
  /\ file' = disk_write(file, n, order)
  /\ wnode' = n
  /\ rnode' = NULL
  /\ lastOp' = [op |-> "write", key |-> 0, value |-> 0]
  /\ UNCHANGED <<tree, fault, mem, order, root, n_nodes, status, found>>

StoreRead ==
  /\ wnode # NULL
  /\ rnode = NULL
  /\ rnode' = disk_read(file, order, wnode.bin_pos)
  /\ lastOp' = [op |-> "read", key |-> 0, value |-> 0]
  /\ UNCHANGED <<tree, fault, mem, order, file, wnode, root, n_nodes, status, found>>

StoreNext ==
  \/ \E n \in StoreNodes(order) : StoreWrite(n)
  \/ StoreRead

SpecStore == StoreInit /\ [][StoreNext]_vars

\* ---------------------------------------------------- btree_create alone
\* Contents the file named by filename may have before the call.
PriorFiles == {<< >>} \cup {<<n>> : n \in StoreNodes(MinOrder)}

\* The check of the arguments comes first and returns before malloc and
\* fopen.
btree_create_Mut(ord, mode, opens, f) ==
  IF ~opens THEN [tree |-> FALSE, file |-> f]
  ELSE IF ord < MinOrder
  THEN [tree |-> FALSE, file |-> IF mode = "w+b" THEN << >> ELSE f]
  ELSE [tree |-> TRUE, file |-> IF mode = "w+b" THEN << >> ELSE f]

\* btree_create(order, filename, mode): NULL for order < 3; otherwise the
\* file is opened (mode "w+b" truncates it, "r+b" keeps it), and NULL is
\* returned when fopen fails.  Result: whether a tree was returned, the file.
btree_create(ord, mode, opens, f) ==
  IF ord < MinOrder THEN [tree |-> FALSE, file |-> f]
  ELSE IF ~opens THEN [tree |-> FALSE, file |-> f]
  ELSE [tree |-> TRUE, file |-> IF mode = "w+b" THEN << >> ELSE f]

CreateInit ==
  /\ tree = FALSE
  /\ fault = "none"
  /\ mem = NoMem
  /\ order = 0
  /\ file \in PriorFiles
  /\ root = NULL
  /\ n_nodes = 0
  /\ status = "NONE"
  /\ lastOp = [op |-> "none", key |-> 0, value |-> 0]
  /\ found = NoResult
  /\ wnode = NULL
  /\ rnode = NULL

Create(ord, mode, opens) ==
  /\ lastOp.op = "none"
  /\ \E r \in {btree_create(ord, mode, opens, file)} :
       /\ tree' = r.tree
       /\ file' = r.file
       /\ order' = IF r.tree THEN ord ELSE order
  /\ lastOp' = [op |-> "create", key |-> ord, value |-> 0]
  /\ UNCHANGED <<fault, mem, root, n_nodes, status, found, wnode, rnode>>

CreateNext ==
  \E ord \in 0..MaxOrder, mode \in {"w+b", "r+b"}, opens \in BOOLEAN :
     Create(ord, mode, opens)

SpecCreate == CreateInit /\ [][CreateNext]_vars

\* ------------------------------------------- the in-memory revision
\* src/btree.c, second revision.  The heap is the sequence of the nodes
\* malloc returned, a node pointer is the node's index in it and 0 is the
\* null pointer.  keys is not initialised by node_create; the entries at and
\* above n_keys are never read and are shown as -1.
mem_node_create(is_leaf, ord) ==
  [n_keys |-> 0, is_leaf |-> is_leaf, keys |-> Fill(ord - 1, -1),
   children |-> Fill(ord, 0)]

RECURSIVE mem_node_search(_, _, _, _)
\* Result: the node pointer returned and the caller's *pos.
mem_node_search(h, id, key, pos) ==
  IF id = 0 THEN [node |-> 0, pos |-> pos]
  ELSE LET node == h[id]
           i == ScanIdx(node, key)
       IN IF i < node.n_keys /\ key = At(node.keys, i)
          THEN [node |-> id, pos |-> i]
          ELSE IF At(node.children, i) # 0
               THEN mem_node_search(h, At(node.children, i), key, pos)
               ELSE [node |-> 0, pos |-> pos]

\* int mid = order / 2 - 1
SplitMid(ord) == ord \div 2 - 1

\* The keys the new node receives: mid keys from child->keys[order / 2].
SplitRightKeys(child, ord) ==
  [j \in 1..(ord - 1) |->
     IF j - 1 < SplitMid(ord) THEN At(child.keys, ord \div 2 + j - 1) ELSE -1]

\* node_splitch(parent, idx, order) with the new node taking the next heap
\* index.  Result: the heap.
node_splitch(h, parent_id, idx, ord) ==
  LET parent == h[parent_id]
      child_id == At(parent.children, idx)
      child == h[child_id]
      new_id == Len(h) + 1
      mid == SplitMid(ord)
      new_node ==
        [n_keys |-> mid, is_leaf |-> child.is_leaf,
         keys |-> SplitRightKeys(child, ord),
         children |-> [j \in 1..ord |->
                         IF ~child.is_leaf /\ j - 1 < ord \div 2
                         THEN At(child.children, ord \div 2 + j - 1) ELSE 0]]
      child2 == [child EXCEPT !.n_keys = mid]
      parent2 ==
        [parent EXCEPT
           !.n_keys = parent.n_keys + 1,
           !.children = [j \in 1..ord |->
                           LET i == j - 1 IN
                           IF i = idx + 1 THEN new_id
                           ELSE IF i > idx + 1 /\ i <= parent.n_keys + 1
                                THEN At(parent.children, i - 1)
                           ELSE At(parent.children, i)],
           !.keys = [j \in 1..(ord - 1) |->
                           LET i == j - 1 IN
                           IF i = idx THEN At(child.keys, mid)
                           ELSE IF i > idx /\ i <= parent.n_keys
                                THEN At(parent.keys, i - 1)
                           ELSE At(parent.keys, i)]]
  IN [Append(h, new_node) EXCEPT ![child_id] = child2, ![parent_id] = parent2]

RECURSIVE node_insertnf(_, _, _, _)
\* Result: the heap.
node_insertnf(h, id, key, ord) ==
  LET node == h[id]
      p == InsertIdx(node, key)
  IN
  IF node.is_leaf
  THEN [h EXCEPT ![id] =
          [node EXCEPT
             !.n_keys = node.n_keys + 1,
             !.keys = [j \in 1..(ord - 1) |->
                         LET i == j - 1 IN
                         IF i = p THEN key
                         ELSE IF i > p /\ i <= node.n_keys
                              THEN At(node.keys, i - 1)
                         ELSE At(node.keys, i)]]]
  ELSE IF h[At(node.children, p)].n_keys = ord - 1
  THEN LET h2 == node_splitch(h, id, p, ord)
           p2 == IF At(h2[id].keys, p) < key THEN p + 1 ELSE p
       IN node_insertnf(h2, At(h2[id].children, p2), key, ord)
  ELSE node_insertnf(h, At(node.children, p), key, ord)

\* node_insert(&root, key, order).  Result: the heap, *root, the value
\* returned (what btree_insert adds to n_nodes).
mem_node_insert(h, rt, key, ord) ==
  IF mem_node_search(h, rt, key, 0).node # 0
  THEN [heap |-> h, root |-> rt, ret |-> 0]
  ELSE IF rt = 0
  THEN LET r0 == mem_node_create(TRUE, ord)
           r1 == [r0 EXCEPT !.keys = SetAt(@, 0, key), !.n_keys = 1]
       IN [heap |-> Append(h, r1), root |-> Len(h) + 1, ret |-> 1]
  ELSE IF h[rt].n_keys = ord - 1
  THEN LET nr0 == mem_node_create(FALSE, ord)
           new_root == [nr0 EXCEPT !.children = SetAt(@, 0, rt)]
           nr_id == Len(h) + 1
           h2 == node_splitch(Append(h, new_root), nr_id, 0, ord)
       IN [heap |-> node_insertnf(h2, nr_id, key, ord), root |-> nr_id,
           ret |-> 1]
  ELSE [heap |-> node_insertnf(h, rt, key, ord), root |-> rt, ret |-> 0]

RECURSIVE mem_node_destroy(_, _)
RECURSIVE DestroyChildren(_, _, _)
\* The loop of node_destroy over children[i .. n_keys].
DestroyChildren(h, id, i) ==
  IF i > h[id].n_keys THEN << >>
  ELSE mem_node_destroy(h, At(h[id].children, i))
         \o DestroyChildren(h, id, i + 1)

\* node_destroy(node): the node pointers passed to free, in order.
mem_node_destroy(h, id) ==
  IF id = 0 THEN << >>
  ELSE (IF h[id].is_leaf THEN << >> ELSE DestroyChildren(h, id, 0))
         \o <<id>>

\* btree_destroy(tree): returns at once when tree->root is NULL.
mem_btree_destroy(m) ==
  IF m.root = 0 THEN m
  ELSE [m EXCEPT !.freed = mem_node_destroy(m.heap, m.root),
                 !.tree_freed = TRUE]

\* btree_create(order) of the in-memory revision.
MemInit ==
  /\ tree = TRUE
  /\ fault = "none"
  /\ mem = NoMem
  /\ order \in Orders
  /\ file = << >>
  /\ root = NULL
  /\ n_nodes = 0
  /\ status = "NONE"
  /\ lastOp = [op |-> "create", key |-> 0, value |-> 0]
  /\ found = NoResult
  /\ wnode = NULL
  /\ rnode = NULL

\* btree_insert(tree, key)
MemInsert(k) ==
  /\ lastOp.op # "destroy"
  /\ Len(mem.heap) < MaxHeap
  /\ \E r \in {mem_node_insert(mem.heap, mem.root, k, order)} :
       /\ mem' = [mem EXCEPT !.heap = r.heap, !.root = r.root]
       /\ n_nodes' = n_nodes + r.ret
  /\ lastOp' = [op |-> "insert", key |-> k, value |-> 0]
  /\ UNCHANGED <<tree, fault, order, file, root, status, found, wnode, rnode>>

\* btree_destroy(tree)
MemDestroy ==
  /\ lastOp.op # "destroy"
  /\ mem' = mem_btree_destroy(mem)
  /\ lastOp' = [op |-> "destroy", key |-> 0, value |-> 0]
  /\ UNCHANGED <<tree, fault, order, file, root, n_nodes, status, found,
                 wnode, rnode>>

MemNext ==
  \/ \E k \in MemKeys : MemInsert(k)
  \/ MemDestroy

SpecMem == MemInit /\ [][MemNext]_vars

RECURSIVE MemReachFrom(_, _)
MemReachFrom(ids, fuel) ==
  LET next == ids \cup
        UNION {{At(mem.heap[i].children, c) : c \in 0..mem.heap[i].n_keys}
                 \ {0} : i \in {j \in ids : ~mem.heap[j].is_leaf}}
  IN IF fuel = 0 \/ next = ids THEN ids ELSE MemReachFrom(next, fuel - 1)

\* Nodes of the in-memory tree.
MemNodes == IF mem.root = 0 THEN {} ELSE MemReachFrom({mem.root}, Len(mem.heap))

\* ------------------------------------------------- the tree as it is stored
\* The node with a given ID: the root is the copy the tree holds in memory,
\* every other node is its record in the file.
Rec(id) == IF root # NULL /\ id = root.bin_pos THEN root ELSE file[id + 1]

IsSlot(id) == id \in 0..(Len(file) - 1)

\* Number of entries of keys/values a record's n_keys covers.
LiveCount(n) == IF n.n_keys < order - 1 THEN n.n_keys ELSE order - 1

ChildIds(n) ==
  IF n.is_leaf THEN {} ELSE {At(n.children, i) : i \in 0..LiveCount(n)}

RECURSIVE ReachFrom(_, _)
ReachFrom(ids, fuel) ==
  LET next == ids \cup
              UNION {{c \in ChildIds(Rec(i)) : IsSlot(c)} : i \in ids}
  IN IF fuel = 0 \/ next = ids THEN ids ELSE ReachFrom(next, fuel - 1)

\* IDs of the nodes reachable from the root through child IDs.
Reachable == IF root = NULL THEN {} ELSE ReachFrom({root.bin_pos}, Len(file))

LiveKeys(n) == {At(n.keys, i) : i \in 0..(LiveCount(n) - 1)}

\* Keys stored in the reachable nodes.
TreeKeys == UNION {LiveKeys(Rec(id)) : id \in Reachable}

\* Keys btree_search finds.
KeysFound == {k \in Keys : btree_search(k, -1).node # NULL}

\* Payloads stored with key k in the reachable nodes, one per occurrence.
Occurrences(k) ==
  {<<id, i>> \in Reachable \X (0..(order - 2)) :
     i < LiveCount(Rec(id)) /\ At(Rec(id).keys, i) = k}

\* Key sequence and child IDs of every reachable node.
Shape ==
  [id \in Reachable |->
     [keys |-> [j \in 1..LiveCount(Rec(id)) |-> Rec(id).keys[j]],
      children |-> Rec(id).children]]

\* Slots that hold a record written by disk_write (a hole carries ID 0).
Allocated == {id \in 0..(Len(file) - 1) : file[id + 1].bin_pos = id}

RECURSIVE Height(_, _)
\* Number of levels below a node, following the first child.
Height(id, fuel) ==
  IF fuel = 0 \/ ~IsSlot(id) \/ Rec(id).is_leaf THEN 0
  ELSE 1 + Height(At(Rec(id).children, 0), fuel - 1)

RECURSIVE Balanced(_, _)
\* Every path from the node down ends in a leaf after the same number of steps.
Balanced(id, fuel) ==
  \/ Rec(id).is_leaf
  \/ /\ fuel > 0
     /\ \A i \in 0..LiveCount(Rec(id)) :
          LET c == At(Rec(id).children, i) IN
          /\ IsSlot(c)
          /\ Balanced(c, fuel - 1)
          /\ Height(c, fuel) = Height(At(Rec(id).children, 0), fuel)

\* Keys stored in the sub-tree under a node ID.
SubtreeKeys(id) ==
  IF ~IsSlot(id) THEN {}
  ELSE UNION {LiveKeys(Rec(j)) : j \in ReachFrom({id}, Len(file))}

NodeSorted(n) ==
  /\ n.n_keys <= order - 1
  /\ \A i \in 0..(n.n_keys - 1) : \A j \in 0..(n.n_keys - 1) :
        i < j => At(n.keys, i) < At(n.keys, j)

NodeSeparates(n) ==
  n.is_leaf \/
  \A i \in 0..LiveCount(n) : \A k \in SubtreeKeys(At(n.children, i)) :
     /\ (i = 0 \/ At(n.keys, i - 1) < k)
     /\ (i = LiveCount(n) \/ k < At(n.keys, i))

\* ================================================================== claims

\* C1: when btree_insert(tree, k, v) returns BTREE_SUCCESS, a btree_search
\* for k right after it returns a node and an index with keys[pos] = k and
\* values[pos] = v.
C1_InsertThenSearch ==
  (lastOp.op = "insert" /\ status = BTREE_SUCCESS) =>
    LET r == btree_search(lastOp.key, -1) IN
    /\ r.node # NULL
    /\ At(r.node.keys, r.pos) = lastOp.key
    /\ At(r.node.values, r.pos) = lastOp.value

\* C2: after any sequence of inserts and removes the keys btree_search finds
\* are exactly the keys inserted and not removed afterwards.  Stated step by
\* step from the empty tree: a successful insert adds its key to the keys
\* found, a successful remove takes its key out, and a call that reports
\* failure leaves them as they were.
C2_KeysMatchHistory ==
  [][\A k \in Keys :
       /\ (lastOp'.op = "insert" /\ lastOp'.key = k) =>
             KeysFound' = IF status' = BTREE_SUCCESS THEN KeysFound \cup {k}
                          ELSE KeysFound
       /\ (lastOp'.op = "remove" /\ lastOp'.key = k) =>
             KeysFound' = IF status' = BTREE_SUCCESS THEN KeysFound \ {k}
                          ELSE KeysFound]_vars

\* C3: a node read back by disk_read right after disk_write wrote it equals
\* the node written in n_keys, is_leaf, keys, values and children.
C3_RoundTrip ==
  rnode # NULL =>
    /\ rnode.n_keys = wnode.n_keys
    /\ rnode.is_leaf = wnode.is_leaf
    /\ rnode.keys = wnode.keys
    /\ rnode.values = wnode.values
    /\ rnode.children = wnode.children

\* C4: btree_remove of a key stored in the tree returns BTREE_SUCCESS and
\* leaves exactly the keys held before except that key.
C4_RemoveStored ==
  [][\A k \in Keys :
       (lastOp'.op = "remove" /\ lastOp'.key = k /\ k \in TreeKeys) =>
          /\ status' = BTREE_SUCCESS
          /\ TreeKeys' = TreeKeys \ {k}]_vars

\* C5: btree_insert of a key the tree already holds returns BTREE_SUCCESS,
\* makes the key's payload the new value and changes nothing else: no key
\* sequence, no child ID, no new slot, and the key is stored exactly once.
C5_DupInsertFrame ==
  [][\A k \in Keys, v \in Vals :
       (lastOp' = [op |-> "insert", key |-> k, value |-> v]
          /\ k \in TreeKeys) =>
          /\ status' = BTREE_SUCCESS
          /\ Shape' = Shape
          /\ Len(file') = Len(file)
          /\ Cardinality(Occurrences(k)') = 1
          /\ \A o \in Occurrences(k)' :
               At(Rec(o[1])'.values, o[2]) = v]_vars

\* C6: every non-root node reachable from the root holds at least
\* ceil(order / 2) - 1 keys.
C6_MinFill ==
  \A id \in Reachable :
     id # root.bin_pos => Rec(id).n_keys >= CeilHalf(order) - 1

\* C7: the live keys of every reachable node are strictly ascending and the
\* keys under children[i] lie strictly between keys[i - 1] and keys[i].
C7_Ordered ==
  \A id \in Reachable : NodeSorted(Rec(id)) /\ NodeSeparates(Rec(id))

\* C8: every reachable non-leaf node with n_keys keys has n_keys + 1
\* children, none of them -1, each the ID of a written node record.
C8_ChildrenPresent ==
  \A id \in Reachable :
     ~Rec(id).is_leaf =>
        /\ Rec(id).n_keys <= order - 1
        /\ \A i \in 0..Rec(id).n_keys :
             /\ At(Rec(id).children, i) # -1
             /\ At(Rec(id).children, i) \in Allocated

\* A merge has emptied an internal root, which keeps its one child.
C8_Witness ==
  /\ root # NULL
  /\ ~root.is_leaf
  /\ root.n_keys = 0
  /\ lastOp.op = "remove"
  /\ At(root.children, 0) \in Allocated

\* C9: all leaves reachable from the root are at the same depth.
C9_LeavesSameDepth ==
  root # NULL => Balanced(root.bin_pos, Len(file))

\* An insert has split the root: two leaves one level below the new root.
C9_Witness ==
  /\ root # NULL
  /\ ~root.is_leaf
  /\ root.n_keys = 1
  /\ lastOp.op = "insert"
  /\ Height(root.bin_pos, Len(file)) = 1
  /\ Rec(At(root.children, 1)).is_leaf

\* C10: every slot that was allocated is reachable from the root, the store
\* releasing no slot; no orphan remains after a merge.
C10_NoOrphans == Allocated \subseteq Reachable

\* C11: on a non-empty tree, btree_remove of a key that is not stored
\* returns BTREE_ERROR_NOT_FOUND and leaves the stored keys and n_nodes as
\* they were.
C11_RemoveAbsent ==
  [][\A k \in Keys :
       (lastOp'.op = "remove" /\ lastOp'.key = k /\ root # NULL
          /\ TreeKeys # {} /\ k \notin TreeKeys) =>
          /\ status' = BTREE_ERROR_NOT_FOUND
          /\ TreeKeys' = TreeKeys
          /\ n_nodes' = n_nodes]_vars

\* C12: btree_remove on a tree without a root returns
\* BTREE_ERROR_NOT_FOUND, leaves the file as it was and leaves root and
\* n_nodes unchanged.
C12_RemoveNoRoot ==
  [][(lastOp'.op = "remove" /\ root = NULL) =>
        /\ status' = BTREE_ERROR_NOT_FOUND
        /\ file' = file
        /\ root' = NULL
        /\ n_nodes' = n_nodes]_vars

\* A remove was answered on a tree that never had a root.
C12_Witness ==
  /\ lastOp.op = "remove"
  /\ root = NULL
  /\ file = << >>
  /\ status = BTREE_ERROR_NOT_FOUND

\* C13: from the tree holding the one key k just inserted into the empty
\* tree, btree_remove of k leaves no root and no reachable node.
C13_InsertRemoveEmpties ==
  [][\A k \in Keys :
       (lastOp.op = "insert" /\ lastOp.key = k /\ n_nodes = 1
          /\ Len(file) = 1 /\ root # NULL /\ root.is_leaf /\ root.n_keys = 1
          /\ lastOp'.op = "remove" /\ lastOp'.key = k) =>
          /\ root' = NULL
          /\ Reachable' = {}]_vars

\* C14: after a completed btree_remove the root is never an internal node
\* without keys: a merge that takes its last key makes the merged child the
\* root.
C14_RootCollapse ==
  (root # NULL /\ ~root.is_leaf) => root.n_keys >= 1

\* C15: btree_create returns NULL for every order below 3, and the file
\* keeps the contents it had: it is neither opened nor truncated, and no
\* tree is allocated.
C15_CreateRejects ==
  [][\A ord \in 0..MaxOrder :
       (lastOp'.op = "create" /\ lastOp'.key = ord /\ ord < 3) =>
          /\ tree' = FALSE
          /\ file' = file
          /\ root' = NULL /\ n_nodes' = 0]_vars

\* A create with order 2 was refused over a file that held a record.
C15_Witness ==
  /\ lastOp.op = "create"
  /\ lastOp.key = 2
  /\ ~tree
  /\ file # << >>

\* C16: btree_search changes neither the file nor the root, the order or
\* n_nodes.
C16_SearchReadOnly ==
  [][lastOp'.op = "search" =>
        /\ file' = file
        /\ root' = root
        /\ order' = order
        /\ n_nodes' = n_nodes]_vars

\* A search has gone through an internal root and found the root's key.
C16_Witness ==
  /\ lastOp.op = "search"
  /\ root # NULL
  /\ ~root.is_leaf
  /\ found.node = root
  /\ Len(file) > 1

\* C17: a search for a key the tree does not hold returns NULL with -1 in
\* *pos; a search that returns a node leaves in *pos the index of the key in
\* that node.
C17_SearchPos ==
  lastOp.op = "search" =>
    /\ (lastOp.key \notin TreeKeys =>
          found.node = NULL /\ found.pos = -1)
    /\ (found.node # NULL =>
          /\ found.pos \in 0..(found.node.n_keys - 1)
          /\ At(found.node.keys, found.pos) = lastOp.key)

\* C18: n_nodes is the number of nodes of the tree, the root and every node
\* reachable from it.
C18_NodeCount == n_nodes = Cardinality(Reachable)

\* C19: the slot count and the node records do not overlap: incrementing
\* the count changes no node record, and writing a node of the tree, the
\* node with ID 0 included, does not change the count.
C19_HeaderDisjoint ==
  file # << >> =>
    /\ \A id \in 0..(Len(file) - 1) :
          update_node_count(file)[id + 1] = file[id + 1]
    /\ \A id \in Reachable :
          get_next_bin_pos(disk_write(file, Rec(id), order))
            = get_next_bin_pos(file)

\* C20: the IDs a successful btree_insert assigns are fresh: the first root,
\* and on a root split the new root and the new sibling, get IDs of no node
\* of the tree before the call, and the two differ.
C20_FreshIds ==
  [][(lastOp'.op = "insert" /\ status' = BTREE_SUCCESS) =>
        /\ root' # NULL
        /\ (root = NULL => Reachable' = {root'.bin_pos})
        /\ (root # NULL /\ root'.bin_pos # root.bin_pos) =>
              /\ At(root'.children, 0) = root.bin_pos
              /\ root'.bin_pos \notin Reachable
              /\ At(root'.children, 1) \notin Reachable
              /\ At(root'.children, 1) # root'.bin_pos
              /\ Cardinality(Reachable') = Cardinality(Reachable) + 2]_vars

\* An insert has just split the root: three nodes with three different IDs.
C20_Witness ==
  /\ lastOp.op = "insert"
  /\ status = BTREE_SUCCESS
  /\ root # NULL
  /\ ~root.is_leaf
  /\ Cardinality({root.bin_pos, At(root.children, 0), At(root.children, 1)}) = 3
  /\ Cardinality(Reachable) = 3
  /\ n_nodes = order

\* C21: a btree_insert or btree_remove during which a file seek, read or
\* write failed returns a status other than BTREE_SUCCESS and leaves n_nodes
\* as it was.
C21_IoFailureReported ==
  [][fault' # "none" =>
        /\ status' # BTREE_SUCCESS
        /\ n_nodes' = n_nodes]_vars

\* C22: btree_destroy of the in-memory revision frees the btree_t object
\* and every node of the tree, each exactly once, the tree into which
\* nothing was inserted included.
C22_DestroyReleasesAll ==
  lastOp.op = "destroy" =>
    /\ mem.tree_freed
    /\ \A id \in MemNodes :
         Cardinality({i \in 1..Len(mem.freed) : mem.freed[i] = id}) = 1
    /\ \A i \in 1..Len(mem.freed) : \A j \in 1..Len(mem.freed) :
         mem.freed[i] = mem.freed[j] => i = j

\* C28: node_splitch of the in-memory revision loses no key of a full
\* child: the keys the left half keeps, then the key promoted into the
\* parent, then the keys of the new right half are the child's order - 1
\* keys in order.  Checked on every full root the inserts build, split under
\* a new root as node_insert does.
C28_SplitKeepsKeys ==
  (lastOp.op # "destroy" /\ mem.root # 0
     /\ mem.heap[mem.root].n_keys = order - 1) =>
    LET new_root == [mem_node_create(FALSE, order) EXCEPT
                       !.children = SetAt(@, 0, mem.root)]
        h0 == Append(mem.heap, new_root)
        h == node_splitch(h0, Len(h0), 0, order)
        live(n) == [j \in 1..n.n_keys |-> n.keys[j]]
    IN live(h[mem.root]) \o <<At(h[Len(h0)].keys, 0)>> \o live(h[Len(h)])
         = live(mem.heap[mem.root])

\* C23: scenario S1.  After the eight inserts the root holds [10, 17] over
\* the children [5, 6, 7], [12] and [20, 30]; search(17) returns the root
\* with index 1 and search(8) returns nothing.
C23_ScenarioS1 ==
  (n_nodes = Len(S1Keys) /\ lastOp.op = "insert") =>
    /\ ~root.is_leaf
    /\ root.n_keys = 2
    /\ SubSeq(root.keys, 1, 2) = <<10, 17>>
    /\ \A i \in 0..2 : IsSlot(At(root.children, i))
    /\ LET kid(i) == Rec(At(root.children, i))
           live(n) == [j \in 1..LiveCount(n) |-> n.keys[j]]
       IN /\ live(kid(0)) = <<5, 6, 7>>
          /\ live(kid(1)) = <<12>>
          /\ live(kid(2)) = <<20, 30>>
    /\ btree_search(17, -1) = [node |-> root, pos |-> 1]
    /\ btree_search(8, -1).node = NULL

C26_KeyCountInRange ==
  /\ \A id \in 0..(Len(file) - 1) :
        file[id + 1].n_keys >= 0 /\ file[id + 1].n_keys <= order - 1
  /\ root # NULL => (root.n_keys >= 0 /\ root.n_keys <= order - 1)

\* ------------------------------------------------- a tree of a wider order
\* The smallest order at which node_split_child leaves two keys in the new
\* sibling: order - 1 - CeilHalf(order) >= 2.
WideOrder == 2 * MinOrder

\* btree_create(WideOrder, "database", "w+b").
WideInit ==
  /\ tree = TRUE
  /\ fault = "none"
  /\ mem = NoMem
  /\ order = WideOrder
  /\ file = << >>
  /\ root = NULL
  /\ n_nodes = 0
  /\ status = "NONE"
  /\ lastOp = [op |-> "create", key |-> 0, value |-> 0]
  /\ found = NoResult
  /\ wnode = NULL
  /\ rnode = NULL

\* btree_insert, up to one insert after the root has filled and split.
WideInsert(k, v) ==
  /\ n_nodes < WideOrder + 1
  /\ \E r \in {node_insert(root, k, v, order, file)} :
     /\ status' = r.status
     /\ root' = r.root
     /\ n_nodes' = IF r.status = BTREE_SUCCESS THEN n_nodes + 1 ELSE n_nodes
     /\ file' = IF r.status = BTREE_SUCCESS THEN update_node_count(r.file)
                ELSE r.file
  /\ lastOp' = [op |-> "insert", key |-> k, value |-> v]
  /\ found' = NoResult
  /\ UNCHANGED <<tree, fault, mem, order, wnode, rnode>>

WideNext == \E k \in 1..(WideOrder + 1), v \in Vals : WideInsert(k, v)

SpecWide == WideInit /\ [][WideNext]_vars

\* C27: in every node record written to the file the entries past n_keys
\* hold -1: keys and values from n_keys on, children after n_keys, and every
\* child of a leaf.
C27_UnusedAreSentinel ==
  \A id \in Allocated :
    LET n == file[id + 1] IN
    /\ \A i \in 0..(order - 2) :
          i >= n.n_keys => (At(n.keys, i) = -1 /\ At(n.values, i) = -1)
    /\ \A i \in 0..(order - 1) : i > n.n_keys => At(n.children, i) = -1
    /\ n.is_leaf => \A i \in 0..(order - 1) : At(n.children, i) = -1

\* IDs below node id: its child IDs and theirs.
Descendants(id) ==
  LET kids == {c \in ChildIds(Rec(id)) : IsSlot(c)}
  IN IF kids = {} THEN {} ELSE ReachFrom(kids, Len(file))

\* C30: on every tree built by inserts and removes no node reachable from the
\* root is its own descendant, and a search for any key and the destruction
\* of the tree end within as many descents as the file has nodes.
C30_NoCycleTerminates ==
  /\ \A id \in Reachable : id \notin Descendants(id)
  /\ \A k \in Keys : SearchEnds(root, k, file, order, Len(file))
  /\ node_destroy(root, file, order, Len(file) + 1).done

\* A search for a key stored in a child went down from an internal root
\* with two children and ended.
C30_Witness ==
  /\ lastOp.op = "search"
  /\ root # NULL
  /\ ~root.is_leaf
  /\ Cardinality(Reachable) = 3
  /\ lastOp.key \in TreeKeys \ LiveKeys(root)
  /\ found.node = NULL

====
